---- MODULE Spec2Model ----
(***************************************************************************)
(* godistcache: an in-process key/value cache with per-entry expiry,       *)
(* optional AES-CBC encryption of string payloads, gob snapshots to a      *)
(* local file and periodic upload of the snapshot to an S3 store.          *)
(*                                                                         *)
(* The model follows the package source (Cache, CacheItem and the methods  *)
(* of Cache).  Callers are processes; each c.m.Lock() ... c.m.Unlock()     *)
(* section is two steps (acquire, then body and release), the code         *)
(* between two sections is a step of its own.                              *)
(*                                                                         *)
(* Representation.                                                         *)
(*   - A Go value of type `any` is a tagged tuple: Nil = << >>,            *)
(*     <<"obj", i>> a comparable object, <<"str", s>> a plain string,      *)
(*     <<"enc", ...>> the base64 text of a ciphertext, <<"int", n>>.       *)
(*   - The key string strconv.Itoa(i) is the integer i.                    *)
(*   - time.Now().UTC().Unix() is the variable now.  TLC integers are 32   *)
(*     bits wide and int64 Unix seconds do not fit, so the clock and every *)
(*     duration are counted in ticks of 60 seconds: 1000 years are         *)
(*     1000 * 365 * 24 * 60 ticks.                                         *)
(*   - Durations handed to the cache are delays, i.e. >= 0, and the clock  *)
(*     is >= 1, so no stored CacheItem equals the zero CacheItem{} that    *)
(*     the code uses as its "absent" marker.                               *)
(***************************************************************************)
EXTENDS Integers, Sequences, FiniteSets, TLC

----------------------------------------------------------------------------
(* Bounds of the model *)

NumKeys == 2
NumVals == 2
NumProcs == 2
MaxTime == 3
MaxExp == 1
MaxCrypt == 2
MaxKeyLen == 33
MaxIVLen == 17
MaxRuns == 2

Keys == 1..NumKeys
Procs == 1..NumProcs
NoProc == 0

----------------------------------------------------------------------------
VARIABLES
    items,      \* c.items: the map, a function from the keys present
    exp,        \* c.exp: default expiration
    lock,       \* c.m: the process holding the mutex, or NoProc
    now,        \* the clock
    pc,         \* per process: where it is in the operation it runs
    loc,        \* per process: arguments and local variables
    ret,        \* per process: what its last completed call returned
    crypt,      \* c.crypt: the CBC encrypter, or NilMode
    decrypt,    \* c.decrypt: the CBC decrypter, or NilMode
    file,       \* the file <path>.godistcache: NoFile, Corrupt or a snapshot
    written,    \* history: per key, the value of the last Put-family write
                \* that nothing has overwritten or removed since
    saved,      \* history: the map as the last SaveToBinaryFile that
                \* returned nil found it (loc.m keeps it during the call)
    env,        \* the lengths of GODISTCACHE_AES_CIPHER_KEY and _IV
    object,     \* the S3 object <key>.godistcache: NoFile, Corrupt or a snapshot
    temp,       \* the file <pwd>/<time>.godistcache that S3Download writes
    uploaded,   \* history: per S3 object, the save whose file it holds
    runs,       \* history: the uploads and cold starts begun so far
    s3,         \* c.s3 # nil: the cache has a blob-store client
    loop        \* where SetupPersistToS3 is: "off" before its call, "go", "sleep"

vars == <<items, exp, lock, now, pc, loc, ret, crypt, decrypt, file, written, saved,
          env, object, temp, uploaded, runs, s3, loop>>

\* the process environment and the S3 side
remote == <<env, object, temp, uploaded, runs, s3, loop>>

\* everything outside the entry store
rest == <<crypt, decrypt, file, saved, remote>>

----------------------------------------------------------------------------
(* Values and cache items *)

Nil == << >>
Obj(i) == <<"obj", i>>
Str(s) == <<"str", s>>
IntVal(n) == <<"int", n>>

\* a value of a type Go cannot compare: a slice, a map, a func
Slice(i) == <<"slice", i>>

\* value == valueNew on two interface values: a run-time panic when both hold
\* the same uncomparable type
ComparePanics(a, b) == a # Nil /\ b # Nil /\ a[1] = "slice" /\ b[1] = "slice"

\* the values callers put: nil and NumVals distinct comparable objects
Vals == {Nil} \cup {Obj(i) : i \in 1..NumVals}

\* type CacheItem struct { V interface{}; E int64 }
CacheItem(v, e) == [V |-> v, E |-> e]

\* CacheItem{}: what a Go map read yields for a missing key
ZeroItem == CacheItem(Nil, 0)

\* v := c.items[key]
Lookup(m, k) == IF k \in DOMAIN m THEN m[k] ELSE ZeroItem

\* c.items[key] = item
MapPut(m, k, item) == [x \in DOMAIN m \cup {k} |-> IF x = k THEN item ELSE m[x]]

\* delete(c.items, key)
MapDeleteNothing(m, k) == m

MapDelete(m, k) == [x \in DOMAIN m \ {k} |-> m[x]]

\* make(map[string]CacheItem) and the result of clear(c.items)
EmptyMap == [x \in {} |-> ZeroItem]

\* exp = 1000 * 365 * 24 * 60 * 60 seconds, in ticks of 60 seconds
ThousandYears == 1000 * 365 * 24 * 60

\* New: if exp == 0 { exp = 1000 years }
DefaultExpAsGiven(e) == e

DefaultExp(e) == IF e = 0 THEN ThousandYears ELSE e

\* The expiry test of Get and GetCrypt: v.E < time.Now().UTC().Unix()
ExpiredInclusive(item, t) == item.E <= t

ExpiredFlipped(item, t) == item.E > t

Expired(item, t) == item.E < t

\* The presence test of Get, GetCrypt, DeleteSafe and Exists: v == (CacheItem{})
IsZeroOrStale(item) == item = ZeroItem \/ item.E < now

IsZero(item) == item = ZeroItem

\* Get after its read: "miss" (zero item), "expired" (Delete, then miss) or
\* "hit" (return v.V, true)
GetOutcome(v, t) ==
    IF IsZero(v) THEN "miss" ELSE IF Expired(v, t) THEN "expired" ELSE "hit"

\* clear(c.items)
MapClearExpired(m) == [x \in {k \in DOMAIN m : m[k].E >= now} |-> m[x]]

MapClear(m) == EmptyMap

\* len(c.items)
MapLenNonNil(m) == Cardinality({k \in DOMAIN m : m[k].V # Nil})

MapLen(m) == Cardinality(DOMAIN m)

----------------------------------------------------------------------------
(* Return values and locals *)

\* history: no live write recorded for the key / a live write of value v
\* that its Put computed to expire at e
NoWrite == [live |-> FALSE, v |-> Nil, e |-> 0]
Write(v, e) == [live |-> TRUE, v |-> v, e |-> e]

NoRet == [op |-> "none", val |-> Nil, ok |-> FALSE]
Err(msg) == <<"err", msg>>
Ret(op, val, ok) == [op |-> op, val |-> val, ok |-> ok]

\* getEncryptionObjects returned nil, nil, nil
NilMode == <<"nil">>

\* a *Cache local to a function: NewFromS3's c before New has returned it
NoCache == [items |-> EmptyMap, exp |-> 0, crypt |-> NilMode, decrypt |-> NilMode]

IdleLoc == [key |-> 0, val |-> Nil, exp |-> 0, str |-> 0, v |-> ZeroItem, m |-> EmptyMap, buf |-> {}, stack |-> << >>, t |-> 0, c |-> NoCache, done |-> << >>, todo |-> {}, removed |-> FALSE]

Idle(p) == pc[p] = "idle"

----------------------------------------------------------------------------
(* Helpers shared by the operations *)

\* c.m.Lock()
Acquire(p) == lock = NoProc /\ lock' = p

\* c.m.Unlock()
Release(p) == lock = p /\ lock' = NoProc

\* beginning a call: the arguments become the locals of process p
Begin(p, label, k, v, e) ==
    /\ Idle(p)
    /\ pc' = [pc EXCEPT ![p] = label]
    /\ loc' = [loc EXCEPT ![p] = [IdleLoc EXCEPT !.key = k, !.val = v, !.exp = e]]
    /\ ret' = [ret EXCEPT ![p] = NoRet]

Goto(p, label) == pc' = [pc EXCEPT ![p] = label]

\* return r to the caller of the outermost call
Return(p, r) ==
    /\ pc' = [pc EXCEPT ![p] = "idle"]
    /\ loc' = [loc EXCEPT ![p] = IdleLoc]
    /\ ret' = [ret EXCEPT ![p] = r]

\* a run-time panic in goroutine p: nothing recovers it, the program is gone
Panic(p) ==
    /\ pc' = [q \in Procs |-> "panic"]
    /\ loc' = [q \in Procs |-> IdleLoc]
    /\ ret' = [ret EXCEPT ![p] = Ret("panic", Nil, FALSE)]

\* history: key k now holds a live write of v with TTL e / holds none
Wrote(k, v, e) == written' = [written EXCEPT ![k] = Write(v, now + e)]
Unwrote(ks) == written' = [k \in Keys |-> IF k \in ks THEN NoWrite ELSE written[k]]

\* c.items[key] = CacheItem{V: value, E: time.Now().UTC().Unix() + e}
StoreAlone(m, k, v, e) == MapPut(EmptyMap, k, CacheItem(v, now + e))

Store(m, k, v, e) == MapPut(m, k, CacheItem(v, now + e))

----------------------------------------------------------------------------
(* Put, PutExp *)

PutLock(p) ==
    /\ \E k \in Keys, v \in Vals : Begin(p, "Put", k, v, 0)
    /\ Acquire(p)
    /\ UNCHANGED <<items, exp, now, written, rest>>

PutStore(p) ==
    /\ pc[p] = "Put"
    /\ items' = Store(items, loc[p].key, loc[p].val, exp)
    /\ Release(p)
    /\ Wrote(loc[p].key, loc[p].val, exp)
    /\ Return(p, Ret("Put", Nil, TRUE))
    /\ UNCHANGED <<exp, now, rest>>

PutExpLock(p) ==
    /\ \E k \in Keys, v \in Vals, e \in 0..MaxExp : Begin(p, "PutExp", k, v, e)
    /\ Acquire(p)
    /\ UNCHANGED <<items, exp, now, written, rest>>

PutExpStore(p) ==
    /\ pc[p] = "PutExp"
    /\ items' = Store(items, loc[p].key, loc[p].val, loc[p].exp)
    /\ Release(p)
    /\ Wrote(loc[p].key, loc[p].val, loc[p].exp)
    /\ Return(p, Ret("PutExp", Nil, TRUE))
    /\ UNCHANGED <<exp, now, rest>>

----------------------------------------------------------------------------
(* Get, and Delete as Get calls it *)

\* what Get hands back: to its caller, or to PutSafe / PutSafeExp, which
\* return exists && value == valueNew
\* a PutSafe that reports whether the key holds anything at the read-back
GetReturnAny(p, val, ok) ==
    IF loc[p].stack = << >>
    THEN Return(p, Ret("Get", val, ok))
    ELSE Return(p, Ret(loc[p].stack[1], Nil, ok))

GetReturn(p, val, ok) ==
    IF loc[p].stack = << >>
    THEN Return(p, Ret("Get", val, ok))
    ELSE IF ok /\ ComparePanics(loc[p].val, val)
         THEN Panic(p)
         ELSE Return(p, Ret(loc[p].stack[1], Nil, ok /\ loc[p].val = val))

GetLock(p) ==
    /\ \/ \E k \in Keys : Begin(p, "Get", k, Nil, 0)
       \/ pc[p] = "GetCall" /\ Goto(p, "Get") /\ UNCHANGED <<loc, ret>>
    /\ Acquire(p)
    /\ UNCHANGED <<items, exp, now, written, rest>>

\* v := c.items[key]; c.m.Unlock()
GetRead(p) ==
    /\ pc[p] = "Get"
    /\ loc' = [loc EXCEPT ![p].v = Lookup(items, loc[p].key)]
    /\ Release(p)
    /\ Goto(p, "GetCheck")
    /\ UNCHANGED <<items, exp, now, ret, written, rest>>

\* the two tests after the unlock
GetCheck(p) ==
    /\ pc[p] = "GetCheck"
    /\ CASE GetOutcome(loc[p].v, now) = "miss" -> GetReturn(p, Nil, FALSE)
         [] GetOutcome(loc[p].v, now) = "expired" ->
                 /\ Goto(p, "DeleteCall")
                 /\ loc' = [loc EXCEPT ![p].stack = Append(loc[p].stack, "Get")]
                 /\ UNCHANGED ret
         [] GetOutcome(loc[p].v, now) = "hit" -> GetReturn(p, loc[p].v.V, TRUE)
    /\ UNCHANGED <<items, exp, lock, now, written, rest>>

\* an expiry path of GetCrypt that answers as for a missing key
AfterDeleteAsMissing(p) ==
    LET st == loc[p].stack
    IN IF st = << >>
       THEN Return(p, Ret("Delete", Nil, TRUE))
       ELSE IF st[Len(st)] = "GetCrypt"
            THEN Return(p, Ret("GetCrypt", Err("Entry doesn't exist"), FALSE))
            ELSE Return(p, Ret(st[1], Nil, FALSE))

\* where Delete returns to: its caller, or Get / GetCrypt on their expiry
\* path, which return (nil, false) / ("", "Entry is expired")
AfterDelete(p) ==
    LET st == loc[p].stack
    IN IF st = << >>
       THEN Return(p, Ret("Delete", Nil, TRUE))
       ELSE IF st[Len(st)] = "GetCrypt"
            THEN Return(p, Ret("GetCrypt", Err("Entry is expired"), FALSE))
            ELSE IF Len(st) = 1
                 THEN Return(p, Ret("Get", Nil, FALSE))
                 ELSE Return(p, Ret(st[1], Nil, FALSE))

DeleteLock(p) ==
    /\ \/ \E k \in Keys : Begin(p, "Delete", k, Nil, 0)
       \/ pc[p] = "DeleteCall" /\ Goto(p, "Delete") /\ UNCHANGED <<loc, ret>>
    /\ Acquire(p)
    /\ UNCHANGED <<items, exp, now, written, rest>>

\* a Delete that, on the expiry path of Get, removes the entry only if it is
\* still the one Get read
DeleteBodyIfSame(p) ==
    /\ pc[p] = "Delete"
    /\ items' = IF loc[p].stack = << >> \/ Lookup(items, loc[p].key) = loc[p].v
                THEN MapDelete(items, loc[p].key)
                ELSE items
    /\ Release(p)
    /\ IF items' = items /\ loc[p].key \in DOMAIN items
       THEN UNCHANGED written
       ELSE Unwrote({loc[p].key})
    /\ AfterDelete(p)
    /\ UNCHANGED <<exp, now, rest>>

\* delete(c.items, key); c.m.Unlock(); back in Get: return nil, false
DeleteBody(p) ==
    /\ pc[p] = "Delete"
    /\ items' = MapDelete(items, loc[p].key)
    /\ Release(p)
    /\ Unwrote({loc[p].key})
    /\ AfterDelete(p)
    /\ UNCHANGED <<exp, now, rest>>

----------------------------------------------------------------------------
(* PutSafe, PutSafeExp *)

\* the values PutSafe and PutSafeExp are given: those, and one Go cannot compare
SafeVals == Vals \cup {Slice(1)}

PutSafeLock(p) ==
    /\ \E k \in Keys, v \in SafeVals : Begin(p, "PutSafe", k, v, 0)
    /\ Acquire(p)
    /\ UNCHANGED <<items, exp, now, written, rest>>

PutSafeStore(p) ==
    /\ pc[p] = "PutSafe"
    /\ items' = Store(items, loc[p].key, loc[p].val, exp)
    /\ Release(p)
    /\ Wrote(loc[p].key, loc[p].val, exp)
    /\ Goto(p, "GetCall")
    /\ loc' = [loc EXCEPT ![p].stack = <<"PutSafe">>]
    /\ UNCHANGED <<exp, now, ret, rest>>

PutSafeExpLock(p) ==
    /\ \E k \in Keys, v \in SafeVals, e \in 0..MaxExp : Begin(p, "PutSafeExp", k, v, e)
    /\ Acquire(p)
    /\ UNCHANGED <<items, exp, now, written, rest>>

PutSafeExpStore(p) ==
    /\ pc[p] = "PutSafeExp"
    /\ items' = Store(items, loc[p].key, loc[p].val, loc[p].exp)
    /\ Release(p)
    /\ Wrote(loc[p].key, loc[p].val, loc[p].exp)
    /\ Goto(p, "GetCall")
    /\ loc' = [loc EXCEPT ![p].stack = <<"PutSafeExp">>]
    /\ UNCHANGED <<exp, now, ret, rest>>

----------------------------------------------------------------------------
(* DeleteSafe, Count, Exists, Clear *)

DeleteSafeLock(p) ==
    /\ \E k \in Keys : Begin(p, "DeleteSafe", k, Nil, 0)
    /\ Acquire(p)
    /\ UNCHANGED <<items, exp, now, written, rest>>

\* delete(c.items, key); v := c.items[key]; c.m.Unlock(); return v != CacheItem{}
DeleteSafeBody(p) ==
    /\ pc[p] = "DeleteSafe"
    /\ items' = MapDelete(items, loc[p].key)
    /\ Release(p)
    /\ Unwrote({loc[p].key})
    /\ Return(p, Ret("DeleteSafe", Nil, ~IsZero(Lookup(items', loc[p].key))))
    /\ UNCHANGED <<exp, now, rest>>

\* count := len(c.items), without the lock
Count(p) ==
    /\ Idle(p)
    /\ ret' = [ret EXCEPT ![p] = Ret("Count", IntVal(MapLen(items)), TRUE)]
    /\ UNCHANGED <<items, exp, lock, now, pc, loc, written, rest>>

ExistsLock(p) ==
    /\ \E k \in Keys : Begin(p, "Exists", k, Nil, 0)
    /\ Acquire(p)
    /\ UNCHANGED <<items, exp, now, written, rest>>

\* val := c.items[key]; c.m.Unlock(); return val != CacheItem{}
ExistsBody(p) ==
    /\ pc[p] = "Exists"
    /\ Release(p)
    /\ Return(p, Ret("Exists", Nil, ~IsZero(Lookup(items, loc[p].key))))
    /\ UNCHANGED <<items, exp, now, written, rest>>

ClearLock(p) ==
    /\ \/ Begin(p, "Clear", 0, Nil, 0)
       \/ pc[p] = "ClearCall" /\ Goto(p, "Clear") /\ UNCHANGED <<loc, ret>>
    /\ Acquire(p)
    /\ UNCHANGED <<items, exp, now, written, rest>>

\* clear(c.items); c.m.Unlock()
ClearBody(p) ==
    /\ pc[p] = "Clear"
    /\ items' = MapClear(items)
    /\ Release(p)
    /\ Unwrote(Keys)
    /\ IF loc[p].stack = << >>
       THEN Return(p, Ret("Clear", Nil, TRUE))
       ELSE Goto(p, "LoadAssign") /\ UNCHANGED <<loc, ret>>
    /\ UNCHANGED <<exp, now, rest>>

----------------------------------------------------------------------------
(* The crypto codec.                                                       *)
(*                                                                         *)
(* c.crypt and c.decrypt are cipher.BlockMode values made once by          *)
(* getEncryptionObjects.  A CBC BlockMode keeps its chaining value: every  *)
(* CryptBlocks call leaves the last ciphertext block it saw as the IV of   *)
(* the next call.  AES under the fixed key is an injective black box, so a *)
(* chaining value is identified with the sequence of plaintexts encrypted  *)
(* since the configured IV (<< >>), and the ciphertext of s under chaining *)
(* value h with h \o <<s>>.  All strings are shorter than one block.       *)

\* a BlockMode whose chaining value is h
Mode(h) == <<"cbc">> \o h
Chain(mode) == Tail(mode)

\* a string no caller ever encrypted
Garbage == 0

\* encryptString: pad, CryptBlocks with c.crypt, base64
Encrypt(mode, s) == <<"enc">> \o Chain(mode) \o <<s>>

\* the BlockMode after CryptBlocks has seen ciphertext ct
ModeAfter(ct) == Mode(Tail(ct))

\* the chaining value ciphertext ct was produced under
IVOf(ct) == LET h == Tail(ct) IN SubSeq(h, 1, Len(h) - 1)

\* decryptString with c.decrypt = mode: base64-decode, CryptBlocks, unpad.
\* Under the chaining value of the encryption the plaintext comes back;
\* under any other one the block is noise, and so is its last byte, which
\* pkcs5Unpad takes as the pad length: it is either within the block (a
\* noise string comes back) or beyond it (the slice expression panics).
Decrypt(mode, ct) ==
    LET h == Tail(ct)
    IN IF Chain(mode) = IVOf(ct) THEN {Str(h[Len(h)])} ELSE {Str(Garbage), <<"panic">>}

IsCiphertext(v) == v # Nil /\ v[1] = "enc"

\* --- decryptString, byte by byte

\* aes.BlockSize
BlockSize == 16

\* the strings decryptString is given: whether they are base64, how many
\* bytes they decode to, and the last byte CryptBlocks leaves in them
MaxBytes == 33
MaxByte == 34
Stored == [b64 : BOOLEAN, len : 0..MaxBytes, last : 0..MaxByte]

\* pkcs5Unpad(v) on len bytes ending in last: v[:(len(v) - unpad)], by the
\* length of the slice it returns, or the panic of the index or of the
\* slice expression
pkcs5Unpad(len, last) ==
    IF len = 0 THEN <<"panic">>
    ELSE IF len - last < 0 THEN <<"panic">>
    ELSE Str(len - last)

\* decryptString(value): the error of base64, the panic of CryptBlocks on
\* an input that is not whole blocks, or what pkcs5Unpad makes of it
decryptString(value) ==
    IF ~value.b64 THEN Err("base64")
    ELSE IF value.len % BlockSize # 0 THEN <<"panic">>
    ELSE pkcs5Unpad(value.len, value.last)

\* c.decryptString(value), called on its own
DecryptCall(p) ==
    /\ \E value \in Stored : Begin(p, "decryptString", 0, value, 0)
    /\ UNCHANGED <<items, exp, lock, now, written, rest>>

DecryptBody(p) ==
    /\ pc[p] = "decryptString"
    /\ LET r == decryptString(loc[p].val)
       IN IF r = <<"panic">>
          THEN Panic(p)
          ELSE Return(p, Ret("decryptString", r, r[1] = "str"))
    /\ UNCHANGED <<items, exp, lock, now, written, rest>>

\* --- getEncryptionObjects

\* the lengths getEncryptionObjects asks for, and the key lengths
\* aes.NewCipher accepts
KeyLen == 32
IVLen == 16
AESKeyLens == {16, 24, 32}

\* an environment with neither variable set / with a well-formed pair
NoCipherEnv == [key |-> 0, iv |-> 0]
CipherEnv == [key |-> KeyLen, iv |-> IVLen]

\* getEncryptionObjects on a key of k bytes and an IV of i bytes:
\*   "nil"      nil, nil, nil: encryption is off
\*   "length"   the error of the length test (a conjunction of the two tests)
\*   "keysize"  the error of aes.NewCipher
\*   "panic"    cipher.NewCBCEncrypter panics on an IV that is no block long
\*   "ok"       the two BlockModes
getEncryptionObjects(k, i) ==
    IF k > 0 /\ i > 0
    THEN IF k # KeyLen /\ i # IVLen THEN "length"
         ELSE IF k \notin AESKeyLens THEN "keysize"
         ELSE IF i # IVLen THEN "panic"
         ELSE "ok"
    ELSE "nil"

\* --- PutCrypt, PutCryptExp

\* v := c.encryptString(key): the string PutCrypt(key, value) encrypts
PutCryptPlaintext(key, value) == key

\* if c.crypt == nil { return error }; v := c.encryptString(key)
CryptBegin(p, op, k, s, e) ==
    /\ Idle(p)
    /\ IF crypt = NilMode
       THEN /\ Return(p, Ret(op, Err("Encryption not set up"), FALSE))
            /\ UNCHANGED crypt
       ELSE LET ct == Encrypt(crypt, PutCryptPlaintext(k, s))
            IN /\ Len(Chain(crypt)) < MaxCrypt
               /\ pc' = [pc EXCEPT ![p] = op \o "Lock"]
               /\ ret' = [ret EXCEPT ![p] = NoRet]
               /\ loc' = [loc EXCEPT ![p] =
                     [IdleLoc EXCEPT !.key = k, !.str = s, !.val = ct, !.exp = e]]
               /\ crypt' = ModeAfter(ct)
    /\ UNCHANGED <<items, exp, lock, now, decrypt, file, written, saved, remote>>

PutCryptBegin(p) == \E k \in Keys, s \in Keys : CryptBegin(p, "PutCrypt", k, s, 0)

PutCryptLock(p) ==
    /\ pc[p] = "PutCryptLock"
    /\ Goto(p, "PutCrypt")
    /\ Acquire(p)
    /\ UNCHANGED <<items, exp, now, loc, ret, written, rest>>

PutCryptStore(p) ==
    /\ pc[p] = "PutCrypt"
    /\ items' = Store(items, loc[p].key, loc[p].val, exp)
    /\ Release(p)
    /\ Wrote(loc[p].key, Str(loc[p].str), exp)
    /\ Return(p, Ret("PutCrypt", Nil, TRUE))
    /\ UNCHANGED <<exp, now, rest>>

PutCryptExpBegin(p) ==
    \E k \in Keys, s \in Keys, e \in 0..MaxExp : CryptBegin(p, "PutCryptExp", k, s, e)

PutCryptExpLock(p) ==
    /\ pc[p] = "PutCryptExpLock"
    /\ Goto(p, "PutCryptExp")
    /\ Acquire(p)
    /\ UNCHANGED <<items, exp, now, loc, ret, written, rest>>

PutCryptExpStore(p) ==
    /\ pc[p] = "PutCryptExp"
    /\ items' = Store(items, loc[p].key, loc[p].val, loc[p].exp)
    /\ Release(p)
    /\ Wrote(loc[p].key, Str(loc[p].str), loc[p].exp)
    /\ Return(p, Ret("PutCryptExp", Nil, TRUE))
    /\ UNCHANGED <<exp, now, rest>>

\* --- GetCrypt

GetCryptLock(p) ==
    /\ \E k \in Keys : Begin(p, "GetCrypt", k, Nil, 0)
    /\ Acquire(p)
    /\ UNCHANGED <<items, exp, now, written, rest>>

GetCryptRead(p) ==
    /\ pc[p] = "GetCrypt"
    /\ loc' = [loc EXCEPT ![p].v = Lookup(items, loc[p].key)]
    /\ Release(p)
    /\ Goto(p, "GetCryptCheck")
    /\ UNCHANGED <<items, exp, now, ret, written, rest>>

\* the two tests, then c.decryptString(v.V.(string)): the type assertion
\* panics on a value that is no string, c.decrypt.CryptBlocks on a nil
\* c.decrypt
GetCryptCheck(p) ==
    /\ pc[p] = "GetCryptCheck"
    /\ IF IsZero(loc[p].v)
       THEN /\ Return(p, Ret("GetCrypt", Err("Entry doesn't exist"), FALSE))
            /\ UNCHANGED decrypt
       ELSE IF Expired(loc[p].v, now)
            THEN /\ Goto(p, "DeleteCall")
                 /\ loc' = [loc EXCEPT ![p].stack = <<"GetCrypt">>]
                 /\ UNCHANGED <<ret, decrypt>>
            ELSE IF ~IsCiphertext(loc[p].v.V) \/ decrypt = NilMode
                 THEN Panic(p) /\ UNCHANGED decrypt
                 ELSE /\ decrypt' = ModeAfter(loc[p].v.V)
                      /\ \E r \in Decrypt(decrypt, loc[p].v.V) :
                            IF r = <<"panic">>
                            THEN Panic(p)
                            ELSE Return(p, Ret("GetCrypt", r, TRUE))
    /\ UNCHANGED <<items, exp, lock, now, crypt, file, written, saved, remote>>

----------------------------------------------------------------------------
(* The snapshot codec and the file <path>.godistcache *)

NoFile == [state |-> "none", data |-> {}]
Corrupt == [state |-> "corrupt", data |-> {}]
Snapshot(data) == [state |-> "ok", data |-> data]

\* history: no save has returned nil yet
NoSave == [valid |-> FALSE, m |-> EmptyMap, t |-> 0]

\* gob's encoding of map[string]CacheItem: one (key, V, E) entry per key, in
\* no order.  Every value of the model is of a type registered with gob.
EncodeUnexpired(m) == {<<k, m[k].V, m[k].E>> : k \in {x \in DOMAIN m : m[x].E >= now}}

EncodeSkipNil(m) == {<<k, m[k].V, m[k].E>> : k \in {x \in DOMAIN m : m[x].V # Nil}}

Encode(m) == {<<k, m[k].V, m[k].E>> : k \in DOMAIN m}

\* gob's decoding into a fresh map
\* a decoding that gives every entry a new expiry from the cache's default
DecodeRestartsTTL(data) ==
    [k \in {e[1] : e \in data} |->
        LET e == CHOOSE e \in data : e[1] = k IN CacheItem(e[2], now + exp)]

DecodeSkipNil(data) ==
    [k \in {e[1] : e \in {x \in data : x[2] # Nil}} |->
        LET e == CHOOSE e \in data : e[1] = k IN CacheItem(e[2], e[3])]

Decode(data) ==
    [k \in {e[1] : e \in data} |->
        LET e == CHOOSE e \in data : e[1] = k IN CacheItem(e[2], e[3])]

\* enc.Encode(c.items) beside other goroutines: gob ranges over the map
\* without the lock, one key at a time; loc[p].todo are the keys it has yet
\* to come by, loc[p].m the map as the call found it (history)
SaveEncodeBegin(p) ==
    /\ Idle(p)
    /\ pc' = [pc EXCEPT ![p] = "SaveEncode"]
    /\ loc' = [loc EXCEPT ![p] = [IdleLoc EXCEPT !.m = items, !.t = now, !.todo = Keys]]
    /\ ret' = [ret EXCEPT ![p] = NoRet]
    /\ UNCHANGED <<items, exp, lock, now, written, rest>>

\* the range comes by key k and encodes the entry the map holds for it now;
\* while another goroutine is inside a write of the map the runtime may
\* instead stop the process ("concurrent map iteration and map write")
SaveEncodeKey(p) ==
    /\ pc[p] = "SaveEncode"
    /\ \/ \E k \in loc[p].todo :
             /\ loc' = [loc EXCEPT
                    ![p].todo = @ \ {k},
                    ![p].buf = @ \cup Encode([j \in {k} \cap DOMAIN items |-> items[j]])]
             /\ UNCHANGED <<pc, ret>>
       \/ /\ \E q \in Procs \ {p} : lock = q /\ pc[q] \notin {"Get", "GetCrypt", "Exists"}
          /\ Panic(p)
    /\ UNCHANGED <<items, exp, lock, now, written, rest>>

\* the range is over: on to the file
SaveEncodeEnd(p) ==
    /\ pc[p] = "SaveEncode"
    /\ loc[p].todo = {}
    /\ Goto(p, "SaveRemove")
    /\ UNCHANGED <<items, exp, lock, now, loc, ret, written, rest>>

\* enc.Encode(c.items) with no other goroutine at the map: reads the map
\* without the lock
SaveEncode(p) ==
    /\ Idle(p)
    /\ pc' = [pc EXCEPT ![p] = "SaveRemove"]
    /\ loc' = [loc EXCEPT ![p] = [IdleLoc EXCEPT !.buf = Encode(items), !.m = items, !.t = now]]
    /\ ret' = [ret EXCEPT ![p] = NoRet]
    /\ UNCHANGED <<items, exp, lock, now, written, rest>>

\* what a step of setupPersistToS3 leaves behind: loc[p].done lists, in
\* order, the steps of the unit that did their work (history)
Did(p, step, good) ==
    loc' = [loc EXCEPT ![p].done = IF good THEN Append(@, step) ELSE @]

\* where SaveToBinaryFile returns to: its caller, or setupPersistToS3, which
\* drops the result and goes on to upload; wrote tells whether the new file
\* is on disk
SaveReturn(p, r, wrote) ==
    IF loc[p].stack = << >>
    THEN Return(p, r)
    ELSE Goto(p, "Upload") /\ Did(p, "save", wrote) /\ UNCHANGED ret

\* a save that leaves the old file in place until the new one replaces it
SaveRemoveKeeps(p) ==
    /\ pc[p] = "SaveRemove"
    /\ Goto(p, "SaveWrite")
    /\ loc' = [loc EXCEPT ![p].removed = file # NoFile]
    /\ UNCHANGED <<ret, file>>
    /\ UNCHANGED <<items, exp, lock, now, crypt, decrypt, written, saved, remote>>

\* if os.Stat finds the file, os.Remove it; Remove may fail.
\* loc[p].removed: this call has removed an older file (history)
SaveRemove(p) ==
    /\ pc[p] = "SaveRemove"
    /\ IF file = NoFile
       THEN Goto(p, "SaveWrite") /\ UNCHANGED <<loc, ret, file>>
       ELSE \/ /\ file' = NoFile
               /\ Goto(p, "SaveWrite")
               /\ loc' = [loc EXCEPT ![p].removed = TRUE]
               /\ UNCHANGED ret
            \/ SaveReturn(p, Ret("Save", Err("remove"), FALSE), FALSE) /\ UNCHANGED file
    /\ UNCHANGED <<items, exp, lock, now, crypt, decrypt, written, saved, remote>>

\* os.WriteFile(...), its error dropped; return nil.  A failed write leaves
\* no file or a partial one.
SaveWrite(p) ==
    /\ pc[p] = "SaveWrite"
    /\ file' \in {Snapshot(loc[p].buf), NoFile, Corrupt}
    /\ saved' = [valid |-> TRUE, m |-> loc[p].m, t |-> loc[p].t]
    /\ SaveReturn(p, Ret("Save", Nil, TRUE), file'.state = "ok")
    /\ UNCHANGED <<items, exp, lock, now, crypt, decrypt, written, remote>>

\* the process is killed (a crash, a power cut) while p is inside a call:
\* every goroutine stops where it is and the disk stays as it is
Crash(p) ==
    /\ pc[p] \notin {"idle", "panic"}
    /\ pc' = [q \in Procs |-> "panic"]
    /\ ret' = [ret EXCEPT ![p] = Ret("crash", Nil, FALSE)]
    /\ UNCHANGED <<items, exp, lock, now, loc, written, rest>>

\* a load that clears the cache before it knows the file is good
LoadReadClearsFirst(p) ==
    /\ Idle(p)
    /\ IF file.state = "ok"
       THEN /\ pc' = [pc EXCEPT ![p] = "ClearCall"]
            /\ loc' = [loc EXCEPT ![p] =
                  [IdleLoc EXCEPT !.m = Decode(file.data), !.stack = <<"Load">>]]
            /\ ret' = [ret EXCEPT ![p] = NoRet]
            /\ UNCHANGED items
       ELSE /\ Return(p, Ret("Load", Err(file.state), FALSE))
            /\ items' = MapClear(items)
    /\ UNCHANGED <<exp, lock, now, written, rest>>

\* os.ReadFile, dec.Decode(&m)
LoadRead(p) ==
    /\ Idle(p)
    /\ IF file.state = "ok"
       THEN /\ pc' = [pc EXCEPT ![p] = "ClearCall"]
            /\ loc' = [loc EXCEPT ![p] =
                  [IdleLoc EXCEPT !.m = Decode(file.data), !.stack = <<"Load">>]]
            /\ ret' = [ret EXCEPT ![p] = NoRet]
       ELSE Return(p, Ret("Load", Err(file.state), FALSE))
    /\ UNCHANGED <<items, exp, lock, now, written, rest>>

\* c.items = m, without the lock
LoadAssign(p) ==
    /\ pc[p] = "LoadAssign"
    /\ items' = loc[p].m
    /\ Return(p, Ret("Load", Nil, TRUE))
    /\ UNCHANGED <<exp, lock, now, written, rest>>

----------------------------------------------------------------------------
(* New: the caller builds a fresh cache and goes on with it *)

NewCache(p) ==
    /\ \A q \in Procs : Idle(q)
    /\ lock = NoProc
    /\ items' = EmptyMap
    /\ \E e \in 0..MaxExp : exp' = DefaultExp(e)
    /\ crypt' = (IF crypt = NilMode THEN NilMode ELSE Mode(<< >>))
    /\ decrypt' = (IF decrypt = NilMode THEN NilMode ELSE Mode(<< >>))
    /\ Unwrote(Keys)
    /\ ret' = [ret EXCEPT ![p] = Ret("New", Nil, TRUE)]
    /\ UNCHANGED <<lock, now, pc, loc, file, saved, remote>>

----------------------------------------------------------------------------
(* The S3 side: S3Upload, setupPersistToS3, NewFromS3.                      *)
(*                                                                         *)
(* The bucket holds two objects per cache key: the dated one,              *)
(* <key>_<id>_<date>.godistcache, and the master, <key>.godistcache.       *)

NoObjects == [dated |-> NoFile, master |-> NoFile]

\* history: the save whose file each object holds
NoUploads == [dated |-> NoSave, master |-> NoSave]

\* S3Upload returns to its caller, or to setupPersistToS3, which drops the
\* result and goes on to remove the file
UploadReturn(p, r) ==
    IF loc[p].stack = << >>
    THEN Return(p, r)
    ELSE Goto(p, "PersistRemove") /\ Did(p, "copy", r.ok) /\ UNCHANGED ret

\* c.s3.S3Upload(filePath, key), called by hand
UploadCall(p) ==
    /\ runs < MaxRuns
    /\ runs' = runs + 1
    /\ Begin(p, "Upload", 0, Nil, 0)
    /\ UNCHANGED <<items, exp, lock, now, crypt, decrypt, file, written, saved,
                   env, object, temp, uploaded, s3, loop>>

\* an upload that sends the snapshot its own unit encoded, file or no file
UploadPutOwn(p) ==
    /\ pc[p] = "Upload"
    /\ \/ /\ object' = [object EXCEPT !.dated = Snapshot(loc[p].buf)]
          /\ uploaded' = [uploaded EXCEPT !.dated = saved]
          /\ Goto(p, "UploadCopy")
          /\ Did(p, "put", TRUE)
          /\ UNCHANGED ret
       \/ /\ UploadReturn(p, Ret("Upload", Err("put"), FALSE))
          /\ UNCHANGED <<object, uploaded>>
    /\ UNCHANGED <<items, exp, lock, now, crypt, decrypt, file, written, saved, env,
                   temp, runs, s3, loop>>

\* the bucket test, os.Open, file.Stat and PutObject under the dated key
UploadPut(p) ==
    /\ pc[p] = "Upload"
    /\ IF file = NoFile
       THEN /\ UploadReturn(p, Ret("Upload", Err("open"), FALSE))
            /\ UNCHANGED <<object, uploaded>>
       ELSE \/ /\ object' = [object EXCEPT !.dated = file]
               /\ uploaded' = [uploaded EXCEPT !.dated = saved]
               /\ Goto(p, "UploadCopy")
               /\ Did(p, "put", TRUE)
               /\ UNCHANGED ret
            \/ /\ UploadReturn(p, Ret("Upload", Err("put"), FALSE))
               /\ UNCHANGED <<object, uploaded>>
    /\ UNCHANGED <<items, exp, lock, now, crypt, decrypt, file, written, saved, env, temp, runs, s3, loop>>

\* a CopyObject that reports success and leaves the master key as it was
UploadCopySkipped(p) ==
    /\ pc[p] = "UploadCopy"
    /\ UploadReturn(p, Ret("Upload", Nil, TRUE))
    /\ UNCHANGED <<items, exp, lock, now, crypt, decrypt, file, written, saved, env,
                   temp, runs, s3, loop, object, uploaded>>

\* CopyObject from the dated key to the master key
UploadCopy(p) ==
    /\ pc[p] = "UploadCopy"
    /\ \/ /\ object' = [object EXCEPT !.master = object.dated]
          /\ uploaded' = [uploaded EXCEPT !.master = uploaded.dated]
          /\ UploadReturn(p, Ret("Upload", Nil, TRUE))
       \/ /\ UploadReturn(p, Ret("Upload", Err("copy"), FALSE))
          /\ UNCHANGED <<object, uploaded>>
    /\ UNCHANGED <<items, exp, lock, now, crypt, decrypt, file, written, saved, env, temp, runs, s3, loop>>

\* setupPersistToS3: c.SaveToBinaryFile(filePath), here its Encode
PersistEncode(p) ==
    /\ pc' = [pc EXCEPT ![p] = "SaveRemove"]
    /\ loc' = [loc EXCEPT ![p] =
          [IdleLoc EXCEPT !.buf = Encode(items), !.m = items, !.t = now,
                          !.stack = <<"Persist">>]]
    /\ ret' = [ret EXCEPT ![p] = NoRet]
    /\ UNCHANGED <<items, exp, lock, now, crypt, decrypt, file, written, saved,
                   env, object, temp, uploaded, s3, loop>>

\* setupPersistToS3(c, filePath) run once, outside the loop
PersistSave(p) ==
    /\ Idle(p)
    /\ runs < MaxRuns
    /\ runs' = runs + 1
    /\ PersistEncode(p)

\* the goroutine the loop started begins to run
PersistGo(p) ==
    /\ pc[p] = "PersistCall"
    /\ PersistEncode(p)
    /\ UNCHANGED runs

\* SetupPersistToS3(interval, filePath): the test of c.s3
SetupCall ==
    /\ loop = "off"
    /\ IF s3
       THEN loop' = "go" /\ UNCHANGED <<pc, loc, ret>>
       ELSE /\ loop' = "panic"
            /\ pc' = [q \in Procs |-> "panic"]
            /\ loc' = [q \in Procs |-> IdleLoc]
            /\ UNCHANGED ret
    /\ UNCHANGED <<items, exp, lock, now, crypt, decrypt, file, written, saved,
                   env, object, temp, uploaded, runs, s3>>

\* go setupPersistToS3(c, filePath): p is the new goroutine, of which the
\* model has NumProcs at most
LoopGo(p) ==
    /\ loop = "go"
    /\ Idle(p)
    /\ loop' = "sleep"
    /\ pc' = [pc EXCEPT ![p] = "PersistCall"]
    /\ ret' = [ret EXCEPT ![p] = NoRet]
    /\ UNCHANGED <<items, exp, lock, now, loc, crypt, decrypt, file, written, saved,
                   env, object, temp, uploaded, runs, s3>>

\* time.Sleep(interval) returns
LoopWake ==
    /\ loop = "sleep"
    /\ loop' = "go"
    /\ UNCHANGED <<items, exp, lock, now, pc, loc, ret, crypt, decrypt, file, written,
                   saved, env, object, temp, uploaded, runs, s3>>

\* a cleanup that stops the process when os.Remove fails
PersistRemoveFatal(p) ==
    /\ pc[p] = "PersistRemove"
    /\ \/ file' = NoFile /\ Return(p, Ret("Persist", Nil, TRUE))
       \/ file' = file /\ Panic(p)
    /\ UNCHANGED <<items, exp, lock, now, crypt, decrypt, written, saved, remote>>

\* setupPersistToS3: os.Remove(filePath + ".godistcache"), its error printed
PersistRemove(p) ==
    /\ pc[p] = "PersistRemove"
    /\ file' \in {NoFile, file}
    /\ Return(p, Ret("Persist", Nil, TRUE))
    /\ UNCHANGED <<items, exp, lock, now, crypt, decrypt, written, saved, remote>>

\* New(0, ctx): the default expiration NewFromS3(exp, ...) hands to New
ColdExp(e) == 0

\* NewFromS3(exp, cacheKey, ctx)
ColdCall(p) ==
    /\ runs < MaxRuns
    /\ runs' = runs + 1
    /\ \E e \in 0..MaxExp : Begin(p, "ColdFetch", 0, Nil, e)
    /\ UNCHANGED <<items, exp, lock, now, crypt, decrypt, file, written, saved,
                   env, object, temp, uploaded, s3, loop>>

\* storage.New and s3.S3Download: GetObject, os.Create, io.Copy.  The object
\* is read during io.Copy, after the file was created
ColdFetch(p) ==
    /\ pc[p] = "ColdFetch"
    /\ \/ /\ Return(p, Ret("NewFromS3", Err("storage"), FALSE))
          /\ UNCHANGED temp
       \/ /\ temp' = Corrupt
          /\ Return(p, Ret("NewFromS3", Err("copy"), FALSE))
       \/ /\ object.master # NoFile
          /\ temp' = object.master
          /\ Goto(p, "ColdNew")
          /\ UNCHANGED <<loc, ret>>
    /\ UNCHANGED <<items, exp, lock, now, crypt, decrypt, file, written, saved,
                   env, object, uploaded, runs, s3, loop>>

\* c, err := New(0, ctx)
ColdNew(p) ==
    /\ pc[p] = "ColdNew"
    /\ LET r == getEncryptionObjects(env.key, env.iv)
       IN CASE r \in {"length", "keysize"} -> Return(p, Ret("NewFromS3", Err(r), FALSE))
            [] r = "panic" -> Panic(p)
            [] r \in {"nil", "ok"} ->
                  /\ loc' = [loc EXCEPT ![p].c =
                        [items |-> EmptyMap,
                         exp |-> DefaultExp(ColdExp(loc[p].exp)),
                         crypt |-> IF r = "nil" THEN NilMode ELSE Mode(<< >>),
                         decrypt |-> IF r = "nil" THEN NilMode ELSE Mode(<< >>)]]
                  /\ Goto(p, "ColdLoad")
                  /\ UNCHANGED ret
    /\ UNCHANGED <<items, exp, lock, now, written, rest>>

\* c.LoadFromBinary(filePath) on the cache no one else holds yet: ReadFile,
\* Decode, Clear, c.items = m
ColdLoadLenient(p) ==
    /\ pc[p] = "ColdLoad"
    /\ loc' = [loc EXCEPT ![p].c.items =
          IF temp.state = "ok" THEN Decode(temp.data) ELSE EmptyMap]
    /\ Goto(p, "ColdRemove")
    /\ UNCHANGED <<items, exp, lock, now, ret, written, rest>>

ColdLoad(p) ==
    /\ pc[p] = "ColdLoad"
    /\ IF temp.state = "ok"
       THEN /\ loc' = [loc EXCEPT ![p].c.items = Decode(temp.data)]
            /\ Goto(p, "ColdRemove")
            /\ UNCHANGED ret
       ELSE Return(p, Ret("NewFromS3", Err(temp.state), FALSE))
    /\ UNCHANGED <<items, exp, lock, now, written, rest>>

\* os.Remove of the downloaded file, then return c, nil: from here on the
\* caller works with c
ColdRemove(p) ==
    /\ pc[p] = "ColdRemove"
    /\ lock = NoProc
    /\ \/ /\ temp' = NoFile
          /\ items' = loc[p].c.items
          /\ exp' = loc[p].c.exp
          /\ crypt' = loc[p].c.crypt
          /\ decrypt' = loc[p].c.decrypt
          /\ Unwrote(Keys)
          /\ Return(p, Ret("NewFromS3", Nil, TRUE))
       \/ /\ Return(p, Ret("NewFromS3", Err("remove"), FALSE))
          /\ UNCHANGED <<items, exp, crypt, decrypt, written, temp>>
    /\ UNCHANGED <<lock, now, file, saved, env, object, uploaded, runs, s3, loop>>

----------------------------------------------------------------------------
(* New *)

\* New(exp, ctx), up to the call of getEncryptionObjects; a failure of
\* storage.New is printed and leaves c.s3 nil
NewCall(p) ==
    /\ \E e \in 0..MaxExp : Begin(p, "New", 0, Nil, e)
    /\ UNCHANGED <<items, exp, lock, now, written, rest>>

\* getEncryptionObjects and the return of New: the caller goes on with the
\* cache New returned, or keeps what it had when New returned an error
NewBody(p) ==
    /\ pc[p] = "New"
    /\ lock = NoProc
    /\ LET r == getEncryptionObjects(env.key, env.iv)
       IN CASE r \in {"length", "keysize"} ->
                  /\ Return(p, Ret("New", Err(r), FALSE))
                  /\ UNCHANGED <<items, exp, crypt, decrypt, written>>
            [] r = "panic" ->
                  /\ Panic(p)
                  /\ UNCHANGED <<items, exp, crypt, decrypt, written>>
            [] r \in {"nil", "ok"} ->
                  /\ items' = EmptyMap
                  /\ exp' = DefaultExp(loc[p].exp)
                  /\ crypt' = (IF r = "nil" THEN NilMode ELSE Mode(<< >>))
                  /\ decrypt' = crypt'
                  /\ Unwrote(Keys)
                  /\ Return(p, Ret("New", Nil, TRUE))
    /\ UNCHANGED <<lock, now, file, saved, remote>>

----------------------------------------------------------------------------
(* What a caller would observe in the current state *)

\* Get(k) on map m at time t, run with no step of another goroutine in between
GetIn(m, k, t) ==
    LET v == Lookup(m, k)
    IN IF GetOutcome(v, t) = "hit" THEN <<v.V, TRUE>> ELSE <<Nil, FALSE>>

\* Get(k) run to its end with no step of another goroutine in between
GetNow(k) ==
    LET v == Lookup(items, k)
    IN IF GetOutcome(v, now) = "hit" THEN <<v.V, TRUE>> ELSE <<Nil, FALSE>>

\* history: the keys put and not deleted, cleared or expired away since
LiveKeys == {k \in Keys : written[k].live}

----------------------------------------------------------------------------
(* The clock *)

Tick ==
    /\ now < MaxTime
    /\ now' = now + 1
    /\ UNCHANGED <<items, exp, lock, pc, loc, ret, written, rest>>

----------------------------------------------------------------------------
(* Specifications *)

\* the cache as New(e, ctx) returns it, with and without a cipher configured
Init ==
    /\ items = EmptyMap
    /\ exp \in {DefaultExp(e) : e \in 0..MaxExp}
    /\ lock = NoProc
    /\ now = 1
    /\ pc = [p \in Procs |-> "idle"]
    /\ loc = [p \in Procs |-> IdleLoc]
    /\ ret = [p \in Procs |-> NoRet]
    /\ crypt \in {NilMode, Mode(<< >>)}
    /\ decrypt = crypt
    /\ file = NoFile
    /\ written = [k \in Keys |-> NoWrite]
    /\ saved = NoSave
    /\ env = (IF crypt = NilMode THEN NoCipherEnv ELSE CipherEnv)
    /\ object = NoObjects
    /\ temp = NoFile
    /\ uploaded = NoUploads
    /\ runs = 0
    /\ s3 = TRUE
    /\ loop = "off"

\* the one goroutine of the sequential specifications
Caller == 1

\* Spec: one goroutine calls the operations of the entry store in any order
Next ==
    \/ Tick
    \/ PutLock(Caller) \/ PutStore(Caller)
    \/ PutExpLock(Caller) \/ PutExpStore(Caller)
    \/ PutSafeLock(Caller) \/ PutSafeStore(Caller)
    \/ PutSafeExpLock(Caller) \/ PutSafeExpStore(Caller)
    \/ GetLock(Caller) \/ GetRead(Caller) \/ GetCheck(Caller)
    \/ DeleteLock(Caller) \/ DeleteBody(Caller)
    \/ DeleteSafeLock(Caller) \/ DeleteSafeBody(Caller)
    \/ Count(Caller)
    \/ ExistsLock(Caller) \/ ExistsBody(Caller)
    \/ ClearLock(Caller) \/ ClearBody(Caller)

Spec == Init /\ [][Next]_vars

\* SpecConfig: a process whose environment holds a cipher key and an IV of
\* any length calls New
InitConfig ==
    /\ items = EmptyMap
    /\ exp = 0
    /\ lock = NoProc
    /\ now = 1
    /\ pc = [p \in Procs |-> "idle"]
    /\ loc = [p \in Procs |-> IdleLoc]
    /\ ret = [p \in Procs |-> NoRet]
    /\ crypt = NilMode
    /\ decrypt = NilMode
    /\ file = NoFile
    /\ written = [k \in Keys |-> NoWrite]
    /\ saved = NoSave
    /\ env \in [key : 0..MaxKeyLen, iv : 0..MaxIVLen]
    /\ object = NoObjects
    /\ temp = NoFile
    /\ uploaded = NoUploads
    /\ runs = 0
    /\ s3 = TRUE
    /\ loop = "off"

NextConfig ==
    \/ NewCall(Caller)
    \/ NewBody(Caller)

SpecConfig == InitConfig /\ [][NextConfig]_vars

\* SpecTTL: one goroutine builds caches and stores entries with every
\* operation of the Put family
NextTTL ==
    \/ Tick
    \/ NewCall(Caller) \/ NewBody(Caller)
    \/ PutLock(Caller) \/ PutStore(Caller)
    \/ PutExpLock(Caller) \/ PutExpStore(Caller)
    \/ PutSafeLock(Caller) \/ PutSafeStore(Caller)
    \/ PutSafeExpLock(Caller) \/ PutSafeExpStore(Caller)
    \/ GetLock(Caller) \/ GetRead(Caller) \/ GetCheck(Caller)
    \/ DeleteLock(Caller) \/ DeleteBody(Caller)
    \/ PutCryptBegin(Caller) \/ PutCryptLock(Caller) \/ PutCryptStore(Caller)
    \/ PutCryptExpBegin(Caller) \/ PutCryptExpLock(Caller) \/ PutCryptExpStore(Caller)

SpecTTL == Init /\ [][NextTTL]_vars

\* SpecWriters: NumProcs goroutines put, read and count concurrently
NextWriters ==
    \/ Tick
    \/ \E p \in Procs :
         \/ PutLock(p) \/ PutStore(p)
         \/ GetLock(p) \/ GetRead(p) \/ GetCheck(p)
         \/ DeleteLock(p) \/ DeleteBody(p)
         \/ Count(p)

SpecWriters == Init /\ [][NextWriters]_vars

\* SpecSafe: NumProcs goroutines call PutSafe, Put and Delete on one cache
NextSafe ==
    \E p \in Procs :
        \/ PutSafeLock(p) \/ PutSafeStore(p)
        \/ GetLock(p) \/ GetRead(p) \/ GetCheck(p)
        \/ PutLock(p) \/ PutStore(p)
        \/ DeleteLock(p) \/ DeleteBody(p)

SpecSafe == Init /\ [][NextSafe]_vars

\* SpecAtomic: one goroutine fills the cache and then saves it while the
\* others clear it
NextAtomic ==
    \/ ((\A q \in Procs : Idle(q)) /\ PutLock(Caller)) \/ PutStore(Caller)
    \/ ((\A q \in Procs : Idle(q)) /\ SaveEncodeBegin(Caller))
    \/ SaveEncodeKey(Caller) \/ SaveEncodeEnd(Caller)
    \/ SaveRemove(Caller) \/ SaveWrite(Caller)
    \/ \E p \in Procs \ {Caller} : ClearLock(p) \/ ClearBody(p)

SpecAtomic == Init /\ [][NextAtomic]_vars

\* SpecCrash: one goroutine fills the cache and saves it again and again; the
\* process may be killed at any step
NextCrash ==
    \/ PutLock(Caller) \/ PutStore(Caller)
    \/ SaveEncode(Caller) \/ SaveRemove(Caller) \/ SaveWrite(Caller)
    \/ Crash(Caller)

SpecCrash == Init /\ [][NextCrash]_vars

\* SpecDecode: decryptString is given every kind of stored string
NextDecode ==
    \/ DecryptCall(Caller)
    \/ DecryptBody(Caller)

SpecDecode == Init /\ [][NextDecode]_vars

\* SpecExpiry: one goroutine fills a cache, saves it, and loads the file into
\* the same or into a fresh cache while the clock runs, then reads
NextExpiry ==
    \/ Tick
    \/ (~saved.valid /\ PutLock(Caller)) \/ PutStore(Caller)
    \/ SaveEncode(Caller) \/ SaveRemove(Caller) \/ SaveWrite(Caller)
    \/ NewCache(Caller)
    \/ LoadRead(Caller) \/ ClearLock(Caller) \/ ClearBody(Caller) \/ LoadAssign(Caller)
    \/ GetLock(Caller) \/ GetRead(Caller) \/ GetCheck(Caller)
    \/ DeleteLock(Caller) \/ DeleteBody(Caller)

SpecExpiry == Init /\ [][NextExpiry]_vars

\* SpecEntry: Caller calls every entry-store operation while the other
\* goroutines contend for the lock with Put, Get, Delete and Clear, the
\* clock standing still
Contend(p) ==
    \/ PutLock(p) \/ PutStore(p)
    \/ GetLock(p) \/ GetRead(p) \/ GetCheck(p)
    \/ DeleteLock(p) \/ DeleteBody(p)
    \/ ClearLock(p) \/ ClearBody(p)

CallerOnly ==
    \/ PutExpLock(Caller) \/ PutExpStore(Caller)
    \/ PutSafeLock(Caller) \/ PutSafeStore(Caller)
    \/ PutSafeExpLock(Caller) \/ PutSafeExpStore(Caller)
    \/ DeleteSafeLock(Caller) \/ DeleteSafeBody(Caller)
    \/ Count(Caller)
    \/ ExistsLock(Caller) \/ ExistsBody(Caller)

NextEntry == (\E p \in Procs : Contend(p)) \/ CallerOnly

\* the Go scheduler runs every runnable goroutine, and a goroutine waiting
\* in Lock gets the mutex in the end (sync.Mutex hands it over to a waiter
\* that has starved)
SpecEntry ==
    /\ Init
    /\ [][NextEntry]_vars
    /\ \A p \in Procs : SF_vars(Contend(p))
    /\ SF_vars(CallerOnly)

\* SpecCrypt: one goroutine uses the encrypted operations
NextCrypt ==
    \/ Tick
    \/ PutCryptBegin(Caller) \/ PutCryptLock(Caller) \/ PutCryptStore(Caller)
    \/ PutCryptExpBegin(Caller) \/ PutCryptExpLock(Caller) \/ PutCryptExpStore(Caller)
    \/ GetCryptLock(Caller) \/ GetCryptRead(Caller) \/ GetCryptCheck(Caller)
    \/ PutLock(Caller) \/ PutStore(Caller)
    \/ GetLock(Caller) \/ GetRead(Caller) \/ GetCheck(Caller)
    \/ DeleteLock(Caller) \/ DeleteBody(Caller)

SpecCrypt == Init /\ [][NextCrypt]_vars

\* SpecSnapshot: one goroutine fills a cache, saves it, and loads the file
\* into the same or into a fresh cache
NextSnapshot ==
    \/ PutLock(Caller) \/ PutStore(Caller)
    \/ GetLock(Caller) \/ GetRead(Caller) \/ GetCheck(Caller)
    \/ DeleteLock(Caller) \/ DeleteBody(Caller)
    \/ Count(Caller)
    \/ SaveEncode(Caller) \/ SaveRemove(Caller) \/ SaveWrite(Caller)
    \/ LoadRead(Caller) \/ ClearLock(Caller) \/ ClearBody(Caller) \/ LoadAssign(Caller)
    \/ NewCache(Caller)

SpecSnapshot == Init /\ [][NextSnapshot]_vars

\* SpecStale: one goroutine stores entries, lets some of them expire, reads
\* some of those, and saves the cache
NextStale ==
    \/ Tick
    \/ PutLock(Caller) \/ PutStore(Caller)
    \/ GetLock(Caller) \/ GetRead(Caller) \/ GetCheck(Caller)
    \/ DeleteLock(Caller) \/ DeleteBody(Caller)
    \/ SaveEncode(Caller) \/ SaveRemove(Caller) \/ SaveWrite(Caller)

SpecStale == Init /\ [][NextStale]_vars

\* SpecRemote: one goroutine fills a cache and then, while the clock runs,
\* persists it to S3 with the unit of SetupPersistToS3 and cold-starts from S3
NextRemote ==
    \/ Tick
    \/ (runs = 0 /\ PutLock(Caller)) \/ PutStore(Caller)
    \/ PersistSave(Caller) \/ SaveRemove(Caller) \/ SaveWrite(Caller)
    \/ UploadPut(Caller) \/ UploadCopy(Caller)
    \/ PersistRemove(Caller)
    \/ ColdCall(Caller) \/ ColdFetch(Caller) \/ ColdNew(Caller)
    \/ ColdLoad(Caller) \/ ColdRemove(Caller)

SpecRemote == Init /\ [][NextRemote]_vars

\* SpecLoop: SetupPersistToS3 is called on a cache with or without an S3
\* client; its loop starts a unit per interval, each in a goroutine of its own
InitLoop ==
    /\ items = EmptyMap
    /\ exp = DefaultExp(0)
    /\ lock = NoProc
    /\ now = 1
    /\ pc = [p \in Procs |-> "idle"]
    /\ loc = [p \in Procs |-> IdleLoc]
    /\ ret = [p \in Procs |-> NoRet]
    /\ crypt = NilMode
    /\ decrypt = NilMode
    /\ file = NoFile
    /\ written = [k \in Keys |-> NoWrite]
    /\ saved = NoSave
    /\ env = NoCipherEnv
    /\ object = NoObjects
    /\ temp = NoFile
    /\ uploaded = NoUploads
    /\ runs = 0
    /\ s3 \in BOOLEAN
    /\ loop = "off"

\* a step of the unit goroutine p runs
Unit(p) ==
    \/ PersistGo(p) \/ SaveRemove(p) \/ SaveWrite(p)
    \/ UploadPut(p) \/ UploadCopy(p)
    \/ PersistRemove(p)

NextLoop ==
    \/ SetupCall
    \/ LoopWake
    \/ \E p \in Procs : LoopGo(p)
    \/ \E p \in Procs : Unit(p)

\* the Go scheduler runs every runnable goroutine again and again, and a
\* sleeping one once its interval is over
SpecLoop ==
    /\ InitLoop
    /\ [][NextLoop]_vars
    /\ WF_vars(LoopWake)
    /\ WF_vars(\E p \in Procs : LoopGo(p))
    /\ \A p \in Procs : WF_vars(Unit(p))

----------------------------------------------------------------------------
(* Properties *)

\* the step is one of process p leaving label l
Leaves(p, l) == pc[p] = l /\ pc'[p] # l

\* C1: Put(k,v) followed by Get(k), with nothing else touching k in between
\* and the clock not past the expiry Put computed, returns (v, true).
C1_PutThenGet ==
    [][\A p \in Procs :
          (/\ Leaves(p, "GetCheck")
           /\ loc[p].stack = << >>
           /\ written[loc[p].key].live
           /\ loc[p].v = Lookup(items, loc[p].key)
           /\ now <= written[loc[p].key].e)
          => ret'[p] = Ret("Get", written[loc[p].key].v, TRUE)]_vars

C1_Witness ==
    \E p \in Procs, k \in Keys :
        /\ ret[p] = Ret("Get", Obj(1), TRUE)
        /\ k \in DOMAIN items
        /\ written[k] = Write(Obj(1), items[k].E)
        /\ now <= written[k].e

\* C2: a Get whose entry has expiresAt < now does not return it: it goes on
\* to Delete, returns (nil, false), and leaves the key out of the map, which
\* is one entry smaller.
C2_ExpiredGet ==
    [][\A p \in Procs :
          /\ (/\ Leaves(p, "GetCheck")
              /\ loc[p].key \in DOMAIN items
              /\ loc[p].v = items[loc[p].key]
              /\ loc[p].v.E < now)
             => (pc'[p] = "DeleteCall" /\ ret'[p] = NoRet)
          /\ (Leaves(p, "Delete") /\ loc[p].stack = <<"Get">>)
             => /\ ret'[p] = Ret("Get", Nil, FALSE)
                /\ loc[p].key \notin DOMAIN items'
                /\ Cardinality(DOMAIN items') = Cardinality(DOMAIN items) - 1]_vars

C2_Witness ==
    /\ pc[Caller] = "Delete"
    /\ loc[Caller].stack = <<"Get">>
    /\ loc[Caller].key \in DOMAIN items
    /\ items[loc[Caller].key].E < now

\* C3: when the concurrent writers have completed, every key put and not
\* removed since is in the map with the value written, Count() is the number
\* of those keys, and Get returns each value not yet expired.
C3_NoLostUpdates ==
    (\A p \in Procs : Idle(p)) =>
        /\ Cardinality(DOMAIN items) = Cardinality(LiveKeys)
        /\ \A k \in LiveKeys :
              /\ k \in DOMAIN items
              /\ items[k].V = written[k].v
              /\ now <= written[k].e => GetNow(k) = <<written[k].v, TRUE>>

C3_Witness ==
    /\ \A p \in Procs : Idle(p) /\ ret[p] = Ret("Put", Nil, TRUE)
    /\ Cardinality(LiveKeys) = NumProcs
    /\ Cardinality(DOMAIN items) = NumProcs

\* C4: with a cipher configured, PutCrypt(k,s) followed by GetCrypt(k)
\* returns (s, no error), for s = k and for s # k.
C4_CryptRoundTrip ==
    [][\A p \in Procs :
          (/\ Leaves(p, "GetCryptCheck")
           /\ written[loc[p].key].live
           /\ written[loc[p].key].v # Nil
           /\ written[loc[p].key].v[1] = "str"
           /\ loc[p].v = Lookup(items, loc[p].key)
           /\ now <= written[loc[p].key].e)
          => ret'[p] = Ret("GetCrypt", written[loc[p].key].v, TRUE)]_vars

\* C5: after SaveToBinaryFile and LoadFromBinary have both returned nil, the
\* loaded cache counts as many entries as the saved one and Get returns the
\* saved value of every key whose entry has not expired.
C5_SnapshotRoundTrip ==
    \A p \in Procs :
        (ret[p] = Ret("Load", Nil, TRUE) /\ saved.valid) =>
            /\ Cardinality(DOMAIN items) = Cardinality(DOMAIN saved.m)
            /\ \A k \in DOMAIN saved.m :
                  now <= saved.m[k].E => GetNow(k) = <<saved.m[k].V, TRUE>>

C5_Witness ==
    /\ ret[Caller] = Ret("Load", Nil, TRUE)
    /\ saved.valid
    /\ DOMAIN saved.m = Keys
    /\ \E k \in Keys : saved.m[k].V = Obj(1)
    /\ \E k \in Keys : saved.m[k].V = Nil

\* C6: DeleteSafe(k) removes k and returns true exactly when k was in the
\* map before the removal.
C6_DeleteSafeReports ==
    [][\A p \in Procs :
          Leaves(p, "DeleteSafe") =>
              /\ ret'[p] = Ret("DeleteSafe", Nil, loc[p].key \in DOMAIN items)
              /\ loc[p].key \notin DOMAIN items']_vars

\* C7: Delete(k) returns normally and leaves k out of the map; on an absent
\* key it changes nothing (so a second Delete(k) changes nothing); and
\* DeleteSafe(k) on an absent key returns false and changes nothing.
C7_DeleteIdempotent ==
    [][\A p \in Procs :
          /\ (Leaves(p, "Delete") /\ loc[p].stack = << >>)
             => /\ ret'[p] = Ret("Delete", Nil, TRUE)
                /\ loc[p].key \notin DOMAIN items'
                /\ \A k \in Keys \ {loc[p].key} : Lookup(items', k) = Lookup(items, k)
                /\ loc[p].key \notin DOMAIN items => items' = items
          /\ (Leaves(p, "DeleteSafe") /\ loc[p].key \notin DOMAIN items)
             => (ret'[p] = Ret("DeleteSafe", Nil, FALSE) /\ items' = items)]_vars

C7_Witness ==
    /\ pc[Caller] = "Delete"
    /\ loc[Caller].stack = << >>
    /\ loc[Caller].key \notin DOMAIN items
    /\ items # EmptyMap

\* C8: Clear() leaves Count() at 0 and every key missing on Get, and a key
\* comes back only by a Put-family store of that key.
C8_ClearEmpties ==
    [][/\ \A p \in Procs :
             Leaves(p, "Clear") =>
                 /\ ret'[p] = Ret("Clear", Nil, TRUE)
                 /\ Cardinality(DOMAIN items') = 0
                 /\ \A k \in Keys : GetNow(k)' = <<Nil, FALSE>>
       /\ \A k \in Keys :
             (k \notin DOMAIN items /\ k \in DOMAIN items') =>
                 \E p \in Procs :
                     /\ pc[p] \in {"Put", "PutExp", "PutSafe", "PutSafeExp"}
                     /\ loc[p].key = k]_vars

C8_Witness ==
    /\ pc[Caller] = "Clear"
    /\ DOMAIN items = Keys

\* C9: Count() is the number of distinct keys put and not deleted or cleared
\* since: a Put of a new key adds one, a re-put none, a Delete of a present
\* key takes one away.
C9_CountTracksKeys ==
    /\ Cardinality(DOMAIN items) = Cardinality(LiveKeys)
    /\ \A p \in Procs :
          ret[p].op = "Count" => ret[p] = Ret("Count", IntVal(Cardinality(LiveKeys)), TRUE)

C9_Witness ==
    /\ ret[Caller] = Ret("Count", IntVal(NumKeys), TRUE)
    /\ LiveKeys = Keys

\* C10: Exists(k) reports presence in the map and Count() the size of the
\* map, whether or not the entries have expired, and neither changes the
\* map; Get misses on an expired entry that Exists and Count still report.
C10_CountExistsIgnoreExpiry ==
    [][/\ \A p \in Procs :
             /\ Leaves(p, "Exists")
                => /\ ret'[p] = Ret("Exists", Nil, loc[p].key \in DOMAIN items)
                   /\ items' = items
             /\ (ret'[p].op = "Count" /\ ret'[p] # ret[p])
                => /\ ret'[p] = Ret("Count", IntVal(Cardinality(DOMAIN items)), TRUE)
                   /\ items' = items
       /\ \A k \in DOMAIN items : items[k].E < now => GetNow(k) = <<Nil, FALSE>>]_vars

C10_Witness ==
    /\ ret[Caller] = Ret("Exists", Nil, TRUE)
    /\ DOMAIN items = Keys
    /\ \A k \in Keys : items[k].E < now

\* C11: on a cache built without a cipher key or IV, every return of PutCrypt,
\* PutCryptExp and GetCrypt (on an absent and on a present key alike) is the
\* error "Encryption not set up", and the call leaves the map as it was.
C11_CryptNotConfigured ==
    [][crypt = NilMode =>
          \A p \in Procs :
              (/\ ret'[p] # ret[p]
               /\ ret'[p].op \in {"PutCrypt", "PutCryptExp", "GetCrypt", "panic"})
              => /\ ret'[p].op # "panic"
                 /\ ret'[p] = Ret(ret'[p].op, Err("Encryption not set up"), FALSE)
                 /\ items' = items]_vars

\* C12: with a key and an IV both set, New returns a cache, with encryption
\* on, exactly when the key is 32 bytes and the IV 16 bytes long; for every
\* other pair of lengths it returns an error and no cache.
C12_ConfigChecked ==
    [][\A p \in Procs :
          (Leaves(p, "New") /\ env.key > 0 /\ env.iv > 0) =>
              IF env.key = KeyLen /\ env.iv = IVLen
              THEN ret'[p] = Ret("New", Nil, TRUE) /\ crypt' # NilMode
              ELSE /\ ret'[p].op = "New"
                   /\ ~ret'[p].ok
                   /\ ret'[p].val # Nil
                   /\ UNCHANGED <<items, exp, crypt, decrypt>>]_vars

\* C13: PutExp(k,v,0) expires at once: a Get(k) run right after the store,
\* before the clock moves, returns (nil, false).
C13_ZeroTTLExpiresAtOnce ==
    [][\A p \in Procs, k \in Keys :
          (Leaves(p, "PutExp") /\ loc[p].key = k /\ loc[p].exp = 0) =>
              GetNow(k)' = <<Nil, FALSE>>]_vars

\* C14: New(0) sets the default TTL to 1000 years and New(e) to e otherwise;
\* Put, PutSafe and PutCrypt store expiresAt = now + the default TTL, PutExp,
\* PutSafeExp and PutCryptExp store expiresAt = now + the TTL they are given;
\* the default TTL is never 0 and every entry in the map carries a timestamp.
C14_TTLResolution ==
    [][/\ \A p \in Procs :
             /\ (Leaves(p, "New") /\ ret'[p].ok)
                => exp' = (IF loc[p].exp = 0 THEN ThousandYears ELSE loc[p].exp)
             /\ (Leaves(p, "Put") \/ Leaves(p, "PutSafe") \/ Leaves(p, "PutCrypt"))
                => /\ loc[p].key \in DOMAIN items'
                   /\ items'[loc[p].key].E = now + exp
             /\ (Leaves(p, "PutExp") \/ Leaves(p, "PutSafeExp") \/ Leaves(p, "PutCryptExp"))
                => /\ loc[p].key \in DOMAIN items'
                   /\ items'[loc[p].key].E = now + loc[p].exp
       /\ exp' # 0
       /\ \A k \in DOMAIN items' : items'[k].E \in Nat /\ items'[k].E >= 1]_vars

C14_Witness ==
    /\ exp = ThousandYears
    /\ ret[Caller] = Ret("PutCryptExp", Nil, TRUE)
    /\ \E k \in DOMAIN items : items[k].E = now + ThousandYears
    /\ \E k \in DOMAIN items : items[k].E = now + MaxExp /\ IsCiphertext(items[k].V)

\* C15: a LoadFromBinary that returns nil leaves the map equal to the decoded
\* file: its keys are the keys of the snapshot, each with the snapshot's value
\* and expiry, and no key the cache held before the load survives unless the
\* snapshot holds it.
C15_LoadReplaces ==
    [][\A p \in Procs :
          Leaves(p, "LoadAssign") =>
              /\ ret'[p] = Ret("Load", Nil, TRUE)
              /\ file.state = "ok"
              /\ DOMAIN items' = {e[1] : e \in file.data}
              /\ \A e \in file.data : items'[e[1]] = CacheItem(e[2], e[3])]_vars

C15_Witness ==
    /\ pc[Caller] = "ClearCall"
    /\ loc[Caller].stack = <<"Load">>
    /\ file.state = "ok"
    /\ \E e \in file.data : e[2] = Nil
    /\ \E k \in DOMAIN items : \A e \in file.data : e[1] # k

C17_OnlyUnexpiredSaved ==
    [][\A p \in Procs :
          (Leaves(p, "SaveWrite") /\ file'.state = "ok") =>
              /\ \A e \in file'.data : e[3] >= loc[p].t
              /\ items' = items]_vars

\* C18: NewFromS3 returns a cache only when the download, New, the load and
\* the removal of the downloaded file have all succeeded, and that cache holds
\* the whole snapshot; in every other case it returns an error and the caller
\* has no new cache.
C18_ColdStartAllOrNothing ==
    [][\A p \in Procs :
          (ret'[p] # ret[p] /\ ret'[p].op = "NewFromS3") =>
              IF ret'[p].ok
              THEN /\ pc[p] = "ColdRemove"
                   /\ ret'[p].val = Nil
                   /\ temp = object.master
                   /\ temp.state = "ok"
                   /\ temp' = NoFile
                   /\ DOMAIN items' = {e[1] : e \in temp.data}
                   /\ \A e \in temp.data : items'[e[1]] = CacheItem(e[2], e[3])
              ELSE /\ ret'[p].val # Nil
                   /\ UNCHANGED <<items, exp, crypt, decrypt>>]_vars

C18_Witness ==
    /\ ret[Caller] = Ret("NewFromS3", Err("corrupt"), FALSE)
    /\ object.master = Corrupt
    /\ temp = Corrupt
    /\ items # EmptyMap

\* C19: the cache NewFromS3(exp, ...) returns has exp as its default
\* expiration, 1000 years when exp is 0.
C19_ColdStartKeepsExp ==
    [][\A p \in Procs :
          (Leaves(p, "ColdRemove") /\ ret'[p].ok) => exp' = DefaultExp(loc[p].exp)]_vars

\* C20 as stated: after an upload that succeeded, the cache NewFromS3 returns
\* answers Get(k), for every k, as the uploaded cache did when it was saved.
C20_RemoteRoundTrip ==
    \A p \in Procs :
        (ret[p] = Ret("NewFromS3", Nil, TRUE) /\ uploaded.master.valid) =>
            \A k \in Keys :
                GetNow(k) = GetIn(uploaded.master.m, k, uploaded.master.t)

\* C20 amended: ... answers Get(k) as the uploaded cache did when it was
\* saved for every k whose entry has not expired by the time of the Get, and
\* misses on every k whose entry has expired by then.
C20_RemoteRoundTripUnexpired ==
    \A p \in Procs :
        (ret[p] = Ret("NewFromS3", Nil, TRUE) /\ uploaded.master.valid) =>
            \A k \in Keys :
                GetNow(k) =
                    IF k \in DOMAIN uploaded.master.m /\ uploaded.master.m[k].E >= now
                    THEN GetIn(uploaded.master.m, k, uploaded.master.t)
                    ELSE <<Nil, FALSE>>

C20_Witness ==
    /\ ret[Caller] = Ret("NewFromS3", Nil, TRUE)
    /\ uploaded.master.valid
    /\ \E k \in Keys : GetNow(k) = <<Nil, TRUE>>
    /\ \E k \in Keys : /\ GetIn(uploaded.master.m, k, uploaded.master.t) = <<Obj(1), TRUE>>
                        /\ GetNow(k) = <<Nil, FALSE>>

\* C21: a persistence unit does its steps in the order snapshot, upload
\* under the dated key, alias under the master key, removal of the staging
\* file; when all of them did their work and no other unit ran meanwhile,
\* the master object and the dated object both hold the snapshot of the map
\* the unit encoded, and the staging file is gone.
C21_UnitPublishesSnapshot ==
    [][\A p \in Procs :
          Leaves(p, "PersistRemove") =>
              /\ loc[p].done \in {<< >>, <<"save">>, <<"put">>, <<"save", "put">>,
                                  <<"put", "copy">>, <<"save", "put", "copy">>}
              /\ (loc[p].done = <<"save", "put", "copy">> /\ file' = NoFile) =>
                     /\ object'.master = object'.dated
                     /\ object'.master.state = "ok"
                     /\ object'.master.data =
                            {<<k, loc[p].m[k].V, loc[p].m[k].E>> : k \in DOMAIN loc[p].m}
                     /\ loc[p].m = items]_vars

C21_Witness ==
    /\ ret[Caller] = Ret("Persist", Nil, TRUE)
    /\ file = NoFile
    /\ object.master = object.dated
    /\ object.master.state = "ok"
    /\ {e[1] : e \in object.master.data} = Keys
    /\ DOMAIN items = Keys

\* C22: once SetupPersistToS3 runs its loop on a cache with an S3 client, it
\* starts a unit and sleeps, again and again, forever; no failure of a save,
\* an upload or a cleanup inside a unit stops it.
C22_LoopNeverStops ==
    /\ (loop = "go") ~> (loop = "sleep")
    /\ (loop = "sleep") ~> (loop = "go")
    /\ [](loop \in {"go", "sleep"} => s3)
    /\ [][(loop \in {"go", "sleep"}) => (loop' \in {"go", "sleep"})]_vars

C22_Witness ==
    /\ loop = "go"
    /\ \E p \in Procs : pc[p] = "PersistRemove" /\ loc[p].done = << >>
    /\ \E p \in Procs : ret[p] = Ret("Persist", Nil, TRUE) /\ file # NoFile

\* C23: PutSafe(k, v), and PutSafeExp(k, v, ttl) with a positive ttl, store v
\* under k; with no other operation on k they return true as long as their
\* read-back finds the entry unexpired, and Get(k) then answers (v, true);
\* they return false only when the read-back finds no unexpired entry or
\* another value.
C23_PutSafeReportsStore ==
    [][\A p \in Procs, k \in Keys, op \in {"PutSafe", "PutSafeExp"} :
          (/\ loc[p].key = k
           /\ pc[p] = op \/ (loc[p].stack # << >> /\ loc[p].stack[1] = op)
           /\ op = "PutSafeExp" => loc[p].exp > 0) =>
              /\ Leaves(p, op) =>
                     items'[k] = CacheItem(loc[p].val,
                                     now + (IF op = "PutSafe" THEN exp ELSE loc[p].exp))
              /\ Leaves(p, "GetCheck") =>
                     IF loc[p].v.E >= now
                     THEN /\ ret'[p] = Ret(op, Nil, TRUE)
                          /\ GetNow(k)' = <<loc[p].val, TRUE>>
                     ELSE pc'[p] = "DeleteCall"
              /\ Leaves(p, "Delete") => ret'[p] = Ret(op, Nil, FALSE)]_vars

\* C24: SaveToBinaryFile returns an error whenever the file could not be
\* written, and returns nil only when the new file is on disk and holds the
\* whole snapshot.
C24_SaveReportsFailure ==
    [][\A p \in Procs :
          (ret'[p] # ret[p] /\ ret'[p].op = "Save") =>
              IF ret'[p].ok
              THEN /\ ret'[p].val = Nil
                   /\ file'.state = "ok"
                   /\ file'.data =
                          {<<k, loc[p].m[k].V, loc[p].m[k].E>> : k \in DOMAIN loc[p].m}
              ELSE ret'[p].val # Nil]_vars

\* C25: GetCrypt answers a missing key with the error "Entry doesn't exist"
\* and an expired entry, which it deletes, with the other error "Entry is
\* expired"; Get answers (nil, false) to both.
C25_MissingVersusExpired ==
    [][\A p \in Procs, k \in Keys :
          loc[p].key = k =>
              /\ (Leaves(p, "GetCryptCheck") /\ k \notin DOMAIN items) =>
                     ret'[p] = Ret("GetCrypt", Err("Entry doesn't exist"), FALSE)
              /\ (Leaves(p, "GetCryptCheck") /\ k \in DOMAIN items /\ items[k].E < now) =>
                     pc'[p] = "DeleteCall" /\ loc'[p].stack = <<"GetCrypt">>
              /\ (Leaves(p, "Delete") /\ loc[p].stack = <<"GetCrypt">>) =>
                     /\ ret'[p] = Ret("GetCrypt", Err("Entry is expired"), FALSE)
                     /\ ret'[p] # Ret("GetCrypt", Err("Entry doesn't exist"), FALSE)
                     /\ k \notin DOMAIN items'
              /\ (Leaves(p, "GetCheck") /\ k \notin DOMAIN items) =>
                     ret'[p] = Ret("Get", Nil, FALSE)
              /\ (Leaves(p, "GetCheck") /\ k \in DOMAIN items /\ items[k].E < now) =>
                     pc'[p] = "DeleteCall" /\ loc'[p].stack = <<"Get">>
              /\ (Leaves(p, "Delete") /\ loc[p].stack = <<"Get">>) =>
                     ret'[p] = Ret("Get", Nil, FALSE) /\ k \notin DOMAIN items']_vars

C25_Witness ==
    /\ ret[Caller] = Ret("GetCrypt", Err("Entry is expired"), FALSE)
    /\ items = EmptyMap
    /\ \E k \in Keys : written[k] = NoWrite

\* C26: Get reads the entry under the lock and releases it; on the expiry
\* path it takes the lock again inside Delete and removes whatever the key
\* holds by then, so a Put(k, v2) that lands between the read of a stale
\* entry and the delete loses its fresh v2: Get answers (nil, false) and a
\* following Get(k) misses.
C26_GetDeletesWhatIsThere ==
    [][\A p \in Procs, k \in Keys :
          (loc[p].key = k /\ (Leaves(p, "Delete") => loc[p].stack = <<"Get">>)) =>
              /\ Leaves(p, "Get") =>
                     /\ lock = p
                     /\ lock' = NoProc
                     /\ loc'[p].v = Lookup(items, k)
              /\ (Leaves(p, "GetCheck") /\ ~IsZero(loc[p].v) /\ loc[p].v.E < now) =>
                     /\ lock # p
                     /\ pc'[p] = "DeleteCall"
                     /\ UNCHANGED <<items, lock>>
              /\ Leaves(p, "DeleteCall") => (lock = NoProc /\ lock' = p)
              /\ Leaves(p, "Delete") =>
                     /\ lock = p
                     /\ k \notin DOMAIN items'
                     /\ ret'[p] = Ret("Get", Nil, FALSE)
                     /\ GetNow(k)' = <<Nil, FALSE>>]_vars

\* Get holds the lock inside Delete, about to remove an unexpired entry that
\* another goroutine put after Get had read a stale one
C26_Witness ==
    \E p \in Procs, k \in Keys :
        /\ pc[p] = "Delete"
        /\ loc[p].stack = <<"Get">>
        /\ loc[p].key = k
        /\ loc[p].v.E < now
        /\ k \in DOMAIN items
        /\ items[k] # loc[p].v
        /\ items[k].E >= now
        /\ GetNow(k) = <<items[k].V, TRUE>>
        /\ \E q \in Procs \ {p} : ret[q].op = "Put"

\* C27: PutSafe applies its write and releases the lock before its read-back,
\* which reads whatever the key holds by then; when a Put or a Delete of
\* another goroutine on the same key lands in between, the read-back finds
\* nothing or another value and PutSafe returns false although its write was
\* applied.  (Steps in which the process dies of a panic are left aside.)
C27_PutSafeNotAtomic ==
    [][\A p \in Procs, k \in Keys :
          (/\ loc[p].key = k
           /\ pc[p] = "PutSafe" \/ loc[p].stack = <<"PutSafe">>
           /\ pc'[p] # "panic") =>
              /\ Leaves(p, "PutSafe") =>
                     /\ lock = p
                     /\ lock' = NoProc
                     /\ items'[k] = CacheItem(loc[p].val, now + exp)
                     /\ pc'[p] = "GetCall"
              /\ Leaves(p, "GetCall") => (lock = NoProc /\ lock' = p)
              /\ Leaves(p, "Get") => loc'[p].v = Lookup(items, k)
              /\ (Leaves(p, "GetCheck") /\ loc[p].v # CacheItem(loc[p].val, now + exp)) =>
                     ret'[p] = Ret("PutSafe", Nil, FALSE)]_vars

\* PutSafe has returned false, the clock not having moved, after another
\* goroutine's Delete or Put
C27_Witness ==
    \E p \in Procs, q \in Procs :
        /\ p # q
        /\ ret[p] = Ret("PutSafe", Nil, FALSE)
        /\ ret[q].op \in {"Put", "Delete"}
        /\ pc[q] = "idle"
        /\ now = 1

\* C28: every step of an operation that reads or writes the map is taken by a
\* goroutine that holds the lock.
C28_MapUnderLock ==
    [][\A p \in Procs :
          (\/ items' # items /\ pc'[p] # pc[p]
           \/ \E l \in {"Get", "GetCrypt", "Exists"} : Leaves(p, l)
           \/ ret'[p] # ret[p] /\ ret'[p].op = "Count"
           \/ Idle(p) /\ pc'[p] = "SaveRemove") =>
              lock = p]_vars

\* C29: a snapshot taken while other goroutines clear the map encodes the map
\* as it was at one instant of the call: as the call found it, or empty.
C29_SnapshotOfOneInstant ==
    [][\A p \in Procs :
          (Leaves(p, "SaveEncode") /\ pc'[p] = "SaveRemove") =>
              \/ loc[p].buf = {<<k, loc[p].m[k].V, loc[p].m[k].E>> : k \in DOMAIN loc[p].m}
              \/ loc[p].buf = {}]_vars

\* C30: the loop starts a unit without waiting for the one before, and every
\* unit works on the one staging path: its upload sends the staging file as
\* it is when opened, whoever wrote it, and fails when there is none; its
\* cleanup removes the staging file whoever wrote it.  So with two units at
\* once, one's cleanup can remove the file before the other's upload opens
\* it, or a unit uploads the file the other wrote.
C30_UnitsShareStagingFile ==
    [][\A p \in Procs :
          /\ (pc[p] = "idle" /\ pc'[p] = "PersistCall") =>
                 /\ loop = "go"
                 /\ UNCHANGED <<file, object>>
                 /\ \A q \in Procs \ {p} : pc'[q] = pc[q]
          /\ Leaves(p, "Upload") =>
                 IF file = NoFile
                 THEN /\ pc'[p] = "PersistRemove"
                      /\ loc'[p].done = loc[p].done
                      /\ object' = object
                 ELSE \/ pc'[p] = "UploadCopy" /\ object'.dated = file
                      \/ pc'[p] = "PersistRemove" /\ object' = object
          /\ Leaves(p, "PersistRemove") => file' \in {NoFile, file}]_vars

\* a unit whose save wrote the staging file is about to open it for its
\* upload, and the file is gone, the other unit having finished meanwhile
C30_Witness ==
    \E p \in Procs, q \in Procs :
        /\ p # q
        /\ pc[p] = "Upload"
        /\ loc[p].done = <<"save">>
        /\ file = NoFile
        /\ pc[q] = "idle"
        /\ ret[q] = Ret("Persist", Nil, TRUE)

\* C31: SaveToBinaryFile removes an existing file before it writes the new
\* one and renames nothing: between the two steps there is no file, so a
\* crash there leaves neither the old snapshot nor the new one.
C31_NoFileBetweenRemoveAndWrite ==
    [][\A p \in Procs :
          /\ (Leaves(p, "SaveRemove") /\ pc'[p] = "SaveWrite") =>
                 file' = NoFile /\ loc'[p].removed = (file # NoFile)
          /\ (pc[p] = "SaveWrite" /\ pc'[p] = "panic") =>
                 file' = NoFile /\ file = NoFile]_vars

C31_Witness ==
    /\ pc[Caller] = "panic"
    /\ ret[Caller] = Ret("crash", Nil, FALSE)
    /\ loc[Caller].removed
    /\ loc[Caller].buf # {}
    /\ saved.valid
    /\ file = NoFile

\* C32: decryptString returns an error, and neither panics nor returns a
\* string, when its input is not base64, decodes to nothing, or ends after
\* decryption in a pad length outside 1..BlockSize or beyond its length.
C32_DecodeFailsClosed ==
    [][\A p \in Procs :
          (/\ Leaves(p, "decryptString")
           /\ \/ ~loc[p].val.b64
              \/ loc[p].val.len = 0
              \/ loc[p].val.last \notin 1..BlockSize
              \/ loc[p].val.last > loc[p].val.len) =>
              /\ pc'[p] = "idle"
              /\ ret'[p].op = "decryptString"
              /\ ~ret'[p].ok
              /\ ret'[p].val # Nil
              /\ ret'[p].val[1] = "err"]_vars

\* C33: GetCrypt(k) does not depend on the crypt calls made before it: after
\* PutCrypt(k, s), here with s = k, GetCrypt(k) returns s whatever PutCrypt
\* and GetCrypt calls came before or in between, and returns s again when
\* called again.
C33_CryptHistoryFree ==
    [][\A p \in Procs, k \in Keys :
          (/\ Leaves(p, "GetCryptCheck")
           /\ loc[p].key = k
           /\ written[k].live
           /\ written[k].v = Str(k)
           /\ loc[p].v = Lookup(items, k)
           /\ now <= written[k].e)
          => ret'[p] = Ret("GetCrypt", Str(k), TRUE)]_vars

\* C34: a LoadFromBinary whose file cannot be read or decoded returns an
\* error and leaves the map with exactly the entries it held before.
C34_FailedLoadKeepsCache ==
    [][\A p \in Procs :
          /\ (Idle(p) /\ pc'[p] = "idle" /\ ret'[p].op = "Load") =>
                 /\ file.state # "ok"
                 /\ ~ret'[p].ok
                 /\ ret'[p].val # Nil
                 /\ items' = items
          /\ (Idle(p) /\ pc'[p] = "ClearCall") => file.state = "ok"]_vars

C34_Witness ==
    /\ ret[Caller] = Ret("Load", Err("corrupt"), FALSE)
    /\ file = Corrupt
    /\ DOMAIN items = Keys

\* C35: every entry loaded from a snapshot has the expiry it had when it was
\* saved, neither restarted nor replaced by the loading cache's default; an
\* entry that was stale when saved, or has become stale since, misses on Get
\* in the loaded cache.
C35_LoadKeepsExpiry ==
    [][\A p \in Procs :
          /\ (Leaves(p, "LoadAssign") /\ saved.valid) =>
                 /\ DOMAIN items' = DOMAIN saved.m
                 /\ \A k \in DOMAIN saved.m : items'[k].E = saved.m[k].E
          /\ (ret'[p] = Ret("Load", Nil, TRUE) /\ saved.valid) =>
                 \A k \in DOMAIN saved.m :
                     saved.m[k].E < now' => GetNow(k)' = <<Nil, FALSE>>]_vars

C35_Witness ==
    /\ ret[Caller] = Ret("Load", Nil, TRUE)
    /\ saved.valid
    /\ exp = ThousandYears
    /\ \E k \in DOMAIN saved.m :
          /\ saved.t <= saved.m[k].E
          /\ saved.m[k].E < now
          /\ items[k].E = saved.m[k].E
          /\ GetNow(k) = <<Nil, FALSE>>

\* C36: with several callers at once no entry-store operation is left
\* unfinished: none is cut off inside its call, the lock is held only by a
\* goroutine inside a critical section, and a goroutine about to lock does
\* not hold the lock already.
C36_OperationsReturn ==
    \A p \in Procs :
        /\ pc[p] # "panic"
        /\ lock = p <=> pc[p] \in {"Put", "PutExp", "PutSafe", "PutSafeExp", "Get",
                                    "Delete", "DeleteSafe", "Exists", "Clear"}

====
